---- MODULE Spec2Model ----
(***************************************************************************)
(* Model of the pending-request lifecycle of the download bot              *)
(* (src/bot.py, class BotHandler): the registry of pending queries         *)
(* (query_info / query_timestamps), the table of timeout tasks             *)
(* (timeout_tasks), and the coroutines that dispatch a download            *)
(* (process_callback, process_try_again_callback, the delayed_auto_download*)
(* tasks running handle_timeout, all of them ending in                     *)
(* process_download_callback).                                             *)
(*                                                                         *)
(* asyncio runs the coroutines on one thread: a coroutine runs without     *)
(* interruption from one awaited network call to the next.  Every action   *)
(* below is one such run: it resumes a coroutine at the await where it is  *)
(* suspended, with the result of the awaited call (ok = it returned,       *)
(* ~ok = it raised), and executes the code up to the next awaited network  *)
(* call.  Awaiting a coroutine that contains no network call (add_query,   *)
(* remove_query, cancel_timeout_task, the keyboard builders, fetch, which  *)
(* uses the blocking requests.post) does not suspend.                      *)
(***************************************************************************)
EXTENDS Integers, Sequences, FiniteSets, TLC

\* ---- bounds of the model ----
\* capacity of the registry; BotHandler.MAX_QUERIES is 100, scaled down
MAX_QUERIES == 2
\* resolver calls and deliveries are counted up to this number
MaxCount == 2
\* age ceiling of a request in iterations of the monitor loop (60 s each)
MaxAge == 2
\* Spec: uuids ever generated, coroutines (callback handlers and timeout
\* tasks) in flight at a time
MaxIds == 3
MaxProcs == 1
\* SpecRace: the same for the races on one query
RaceIds == 1
RaceProcs == 2
\* SpecAge: uuids ever generated, iterations of the monitor loop
AgeIds == 3
MaxTime == 4

Max(a, b) == IF a > b THEN a ELSE b

\* query ids are 1, 2, ... in the order uuid.uuid4() returns them
Ids == 1..Max(MaxIds, Max(RaceIds, AgeIds))
ProcIds == 1..Max(MaxProcs, RaceProcs)
\* what a specification lets happen
Full == [ids |-> MaxIds, procs |-> MaxProcs, time |-> 0, count |-> 0]
Race == [ids |-> RaceIds, procs |-> RaceProcs, time |-> 0, count |-> MaxCount]
Age == [ids |-> AgeIds, procs |-> 0, time |-> MaxTime, count |-> 0]
\* Telegram user ids.  Who submits is immaterial, the code only compares the
\* clicking user with the stored one (bot.py:357): user 1 submits, users 1
\* and 2 click.
Users == {1, 2}
Requesters == {1}
\* download_type carried by callback data: the two buttons and anything else
Modes == {"auto", "audio", "other"}
\* The sender and the download_type of a callback query are inputs of the
\* click; the code reads the sender at bot.py:357 only and the download_type
\* at bot.py:428 only, and their values are drawn where they are read.
\* timeout_tasks entry whose task has ended
Finished == 0

VARIABLES
    query_info,        \* uuid -> InlineQueryInfo (bot.py:32)
    query_timestamps,  \* list of uuids, oldest first (bot.py:33)
    timeout_tasks,     \* uuid -> timeout task (bot.py:39)
    procs,             \* the coroutines in flight: position and locals
    prompting,         \* uuids whose handle_incoming_message awaits send_photo
    surface,           \* uuid -> controls shown on the originating message
    nextId,            \* next uuid that uuid.uuid4() returns
    now,               \* time, in iterations of the monitor loop
    fetches,           \* uuid -> number of self.fetch calls, by trigger
    deliveries,        \* uuid -> number of media deliveries, by trigger
    retried,           \* uuids for which Try Again was clicked
    fetch_call,        \* one call of MediaFetcher.fetch: loop position, locals
    parse_call,        \* one call of parse_media_response: argument, result
    prober,            \* the lru_cache of _sync_url_has_content and the
                       \* calls of check_url_has_content in flight
    deliver_call,      \* one call of send_media_to_dm: position, what was sent
    gather_call        \* the probes of one picker response

vars == <<query_info, query_timestamps, timeout_tasks, procs, prompting,
          surface, nextId, now, fetches, deliveries, retried,
          fetch_call, parse_call, prober, deliver_call, gather_call>>

\* the state of the handlers of the bot
bot_vars == <<query_info, query_timestamps, timeout_tasks, procs, prompting,
              surface, nextId, now, fetches, deliveries, retried>>

\* ---- helpers on functions and sequences ----
Drop(f, k) == [x \in DOMAIN f \ {k} |-> f[x]]

Put(f, k, v) == [x \in DOMAIN f \cup {k} |-> IF x = k THEN v ELSE f[x]]

Range(q) == {q[i] : i \in 1..Len(q)}

\* list.remove(x): removes the first occurrence of x
ListRemove(q, x) ==
    IF x \notin Range(q) THEN q
    ELSE LET i == CHOOSE j \in 1..Len(q) :
                     q[j] = x /\ \A k \in 1..(j - 1) : q[k] # x
         IN  SubSeq(q, 1, i - 1) \o SubSeq(q, i + 1, Len(q))

RECURSIVE Ascending(_)
\* the elements of a set of integers, smallest first
Ascending(S) ==
    IF S = {} THEN <<>>
    ELSE LET m == CHOOSE x \in S : \A y \in S : x <= y
         IN  <<m>> \o Ascending(S \ {m})

Bump(L, n) == IF n < L.count THEN n + 1 ELSE n

\* ---- the coroutines ----
\* kind: "click" (process_callback), "try_again" (process_try_again_callback
\*       until it has entered process_download_callback), "timer"
\*       (delayed_auto_download, which calls with automatic_download=True),
\*       "deep_link" (cmd_start, whose CallbackQuery has message=None)
\* pc: the await where the coroutine is suspended; "idle": the slot is free
\* cleaned: the local query_info_cleaned, unbound until bot.py:440
\* must_cancel: it called Task.cancel() on itself, CancelledError is pending
\* first: (try_again) no Try Again had been clicked for the uuid before
Idle == [kind |-> "none", pc |-> "idle", id |-> 0, is_inline |-> FALSE,
         cleaned |-> "unbound", must_cancel |-> FALSE, first |-> FALSE]

\* the mutable part of the state, threaded through the code of one run
Cur == [qi |-> query_info, qt |-> query_timestamps, tt |-> timeout_tasks,
        ps |-> procs, sf |-> surface, fe |-> fetches, de |-> deliveries]

Commit(s) ==
    /\ query_info' = s.qi
    /\ query_timestamps' = s.qt
    /\ timeout_tasks' = s.tt
    /\ procs' = s.ps
    /\ surface' = s.sf
    /\ fetches' = s.fe
    /\ deliveries' = s.de
    /\ UNCHANGED <<fetch_call, parse_call, prober, deliver_call, gather_call>>

\* the coroutine ends; a timeout_tasks entry that holds it now holds a
\* finished task
Done(s, p) ==
    [s EXCEPT !.ps[p] = Idle,
              !.tt = [i \in DOMAIN s.tt |->
                         IF s.tt[i] = p THEN Finished ELSE s.tt[i]]]

\* the coroutine reaches the awaited network call pc
Suspend(s, p, pc) == [s EXCEPT !.ps[p].pc = pc]

\* asyncio.Task.cancel(), called by coroutine self (0: by a handler that is
\* not a coroutine of the model).  A task that has not ended gets
\* CancelledError at the await where it is suspended: the awaited call has
\* no effect in the model and no code of the task runs any more, so the task
\* ends here.  A task that cancels itself gets it at its next await.
TaskCancel(ps, t, self) ==
    IF t = Finished THEN ps
    ELSE IF t = self THEN [ps EXCEPT ![t].must_cancel = TRUE]
    ELSE [ps EXCEPT ![t] = Idle]

\* BotHandler.cancel_timeout_task
cancel_timeout_task(s, id, self) ==
    IF id \in DOMAIN s.tt
    THEN [s EXCEPT !.ps = TaskCancel(s.ps, s.tt[id], self),
                   !.tt = Drop(s.tt, id)]
    ELSE s

\* remove_query without its second statement
remove_query_info_only(s, id) ==
    [s EXCEPT !.qi = IF id \in DOMAIN s.qi THEN Drop(s.qi, id) ELSE s.qi]

\* BotHandler.remove_query
remove_query(s, id) ==
    [s EXCEPT !.qi = IF id \in DOMAIN s.qi THEN Drop(s.qi, id) ELSE s.qi,
              !.qt = ListRemove(s.qt, id)]

RECURSIVE Evict(_)
\* the while loop of BotHandler.add_query
Evict(s) ==
    IF Len(s.qt) > MAX_QUERIES
    THEN LET oldest == Head(s.qt)
             s1 == [s EXCEPT !.qt = Tail(s.qt)]
         IN  IF oldest \in DOMAIN s1.qi
             THEN LET s2 == cancel_timeout_task(s1, oldest, 0)
                  IN  Evict([s2 EXCEPT !.qi = Drop(s2.qi, oldest)])
             ELSE Evict(s1)
    ELSE s

\* add_query that makes room by dropping what came last
add_query_newest_out(s, id, info) ==
    IF Len(s.qt) >= MAX_QUERIES THEN s
    ELSE [s EXCEPT !.qi = Put(s.qi, id, info), !.qt = Append(s.qt, id)]

\* BotHandler.add_query
add_query(s, id, info) ==
    Evict([s EXCEPT !.qi = Put(s.qi, id, info), !.qt = Append(s.qt, id)])

\* a loop body that drops the queries older than MaxAge
check_expired_messages_by_age(s) ==
    LET young == {i \in DOMAIN s.qi : now - s.qi[i].time_ns <= MaxAge}
    IN  [s EXCEPT !.qi = [i \in young |-> s.qi[i]],
                  !.qt = SelectSeq(s.qt, LAMBDA x : x \in young)]

\* the body of the loop of BotHandler.check_expired_messages_task
check_expired_messages(s) ==
    IF Cardinality(DOMAIN s.qi) # Len(s.qt)
    THEN LET kept == SelectSeq(s.qt, LAMBDA x : x \in DOMAIN s.qi)
         IN  [s EXCEPT !.qt = kept \o Ascending(DOMAIN s.qi \ Range(kept))]
    ELSE s

\* no call of MediaFetcher.fetch or of parse_media_response is followed
NotCalled == [pc |-> "none"]

\* BotHandler.__init__
InitBot ==
    /\ query_info = <<>>
    /\ query_timestamps = <<>>
    /\ timeout_tasks = <<>>
    /\ procs = [p \in ProcIds |-> Idle]
    /\ prompting = {}
    /\ surface = [i \in Ids |-> "none"]
    /\ nextId = 1
    /\ now = 0
    /\ fetches = [i \in Ids |-> [click |-> 0, timer |-> 0]]
    /\ deliveries = [i \in Ids |-> [click |-> 0, timer |-> 0]]
    /\ retried = {}

\* the bot alone: no call of the media functions is followed
Init ==
    /\ InitBot
    /\ fetch_call = NotCalled /\ parse_call = NotCalled
    /\ prober = NotCalled /\ deliver_call = NotCalled
    /\ gather_call = NotCalled

\* the lowest free coroutine slot
FreeProc == CHOOSE p \in ProcIds :
                procs[p].pc = "idle" /\ \A q \in 1..(p - 1) : procs[q].pc # "idle"

HasFreeProc(L) == \E p \in 1..L.procs : procs[p].pc = "idle"

\* asyncio.create_task(delayed_auto_download()); self.timeout_tasks[id] = task
\* (bot.py:770-771 and 833-834): the prior entry, if any, is overwritten
CreateTimeoutTask(s, p, id, inline) ==
    [s EXCEPT !.ps[p] = [Idle EXCEPT !.kind = "timer", !.pc = "sleep",
                            !.id = id, !.is_inline = inline],
              !.tt = Put(s.tt, id, p)]

\* ---- submissions ----
\* BotHandler.process_inline_query: a new uuid, add_query, then the answer
\* that carries the download keyboard
process_inline_query(L, user) ==
    /\ nextId <= L.ids
    /\ LET info == [from_user_id |-> user, inline |-> TRUE, time_ns |-> now]
           s == add_query(Cur, nextId, info)
       IN  Commit([s EXCEPT !.sf[nextId] = "download"])
    /\ nextId' = nextId + 1
    /\ UNCHANGED <<prompting, now, retried>>

\* BotHandler.handle_incoming_message up to "await bot.send_photo"
handle_incoming_message(L, user) ==
    /\ nextId <= L.ids
    /\ LET info == [from_user_id |-> user, inline |-> FALSE, time_ns |-> now]
       IN  Commit(add_query(Cur, nextId, info))
    /\ prompting' = prompting \cup {nextId}
    /\ nextId' = nextId + 1
    /\ UNCHANGED <<now, retried>>

\* BotHandler.handle_incoming_message from the return of send_photo: the
\* timeout task is created and registered, whatever happened to the query
\* meanwhile; when send_photo raises the handler ends
send_photo_returns(L, id, ok) ==
    /\ id \in prompting
    /\ prompting' = prompting \ {id}
    /\ IF ok
       THEN /\ HasFreeProc(L)
            /\ LET s == CreateTimeoutTask(Cur, FreeProc, id, FALSE)
               IN  Commit([s EXCEPT !.sf[id] = "download"])
       ELSE Commit(Cur)
    /\ UNCHANGED <<nextId, now, retried>>

\* BotHandler.process_chosen_inline_result
process_chosen_inline_result(L, id) ==
    /\ id < nextId
    /\ id \in DOMAIN query_info
    /\ query_info[id].inline
    /\ HasFreeProc(L)
    /\ Commit(CreateTimeoutTask(Cur, FreeProc, id, TRUE))
    /\ UNCHANGED <<prompting, nextId, now, retried>>

\* one iteration of BotHandler.check_expired_messages_task, with its
\* asyncio.sleep(60); time is counted up to L.time
check_expired_messages_task(L) ==
    /\ Commit(check_expired_messages(Cur))
    /\ now' = IF now < L.time THEN now + 1 ELSE now
    /\ UNCHANGED <<prompting, nextId, retried>>

\* ---- the dispatch: BotHandler.process_download_callback ----
\* automatic_download of the call made by coroutine r
Auto(r) == r.kind = "timer"

Trigger(r) == IF Auto(r) THEN "timer" ELSE "click"

\* what follows a call of process_download_callback that returned normally:
\* process_callback removes the query if it is still there (bot.py:151-153),
\* handle_timeout does nothing more (bot.py:926-934)
Return(s, p) ==
    LET id == s.ps[p].id
    IN  Done(IF ~Auto(s.ps[p]) /\ id \in DOMAIN s.qi
             THEN remove_query(s, id) ELSE s, p)

\* an exception leaves process_download_callback: process_callback logs it
\* (bot.py:155-156); handle_timeout cancels the timeout task and removes the
\* query (bot.py:936-943)
Escape(s, p) ==
    LET id == s.ps[p].id
    IN  IF Auto(s.ps[p])
        THEN LET s1 == cancel_timeout_task(s, id, p)
             IN  Done(IF id \in DOMAIN s1.qi THEN remove_query(s1, id)
                      ELSE s1, p)
        ELSE Done(s, p)

\* bot.py:414-425, 534-557 for the CallbackQuery of cmd_start and a direct
\* query: callback.message is None, so callback.message.chat.id raises
\* AttributeError at bot.py:421; the handler of the exception raises it again
\* at bot.py:546, catches that, and then reads the unbound query_info_cleaned
\* at bot.py:557 (the query is still stored: nothing was awaited since the
\* lookup)
NoMessage(s, p) == Escape(s, p)

\* bot.py:346-425: lookup, authorization, cancellation of the timeout task
\* (user-initiated dispatch only), up to the first awaited network call
Enter(s, p, user) ==
    LET id == s.ps[p].id IN
    IF id \notin DOMAIN s.qi THEN Suspend(s, p, "expired_answer")
    ELSE IF user # s.qi[id].from_user_id THEN Suspend(s, p, "unauth_answer")
    ELSE LET s1 == [s EXCEPT !.ps[p].is_inline = s.qi[id].inline,
                             !.ps[p].first = FALSE,
                             !.ps[p].kind = IF @ \in {"timer", "deep_link"}
                                            THEN @ ELSE "click"]
             s2 == IF ~Auto(s1.ps[p]) THEN cancel_timeout_task(s1, id, p)
                   ELSE s1
         IN  IF s2.ps[p].is_inline THEN Suspend(s2, p, "dm_probe")
             ELSE IF s2.ps[p].kind = "deep_link" THEN NoMessage(s2, p)
             ELSE Suspend(s2, p, "proc_edit")

\* bot.py:378-391: the dummy message could not be sent or deleted
PermissionRequired(s, p) ==
    Suspend(cancel_timeout_task(s, s.ps[p].id, p), p, "perm_edit")

\* bot.py:534-552: the handler of "except Exception"
ExceptPath(s, p) == Suspend(s, p, "fallback_edit")

\* what parse_media_response returned, as far as the dispatch looks at it:
\*   "ok"      success, all items in media_items
\*   "partial" success, some items failed the probe
\*   "empty"   success set and no media item: the redirect whose audio
\*             locator passed the probe (media_fetcher.py:176-184)
\*   "fail"    success not set
ParseResults == {"ok", "partial", "empty", "fail"}

\* a dispatch that removes the query only when the result is a success
AfterParseKeepsFailed(s, p, res) ==
    LET id == s.ps[p].id
    IN  IF res = "fail" THEN Suspend([s EXCEPT !.ps[p].cleaned = "false"],
                                     p, "err_edit")
        ELSE Suspend(IF id \in DOMAIN s.qi
                     THEN [remove_query(s, id) EXCEPT !.ps[p].cleaned = "true"]
                     ELSE [s EXCEPT !.ps[p].cleaned = "false"], p, "send_media")

\* bot.py:438-474: after parse_media_response returned res.  For an empty
\* media list send_media_to_dm returns (True, None) and
\* update_original_message returns without an awaited call (bot.py:254-321,
\* 585), so the dispatch returns True at bot.py:532 in the same step.
AfterParse(s, p, res) ==
    LET id == s.ps[p].id
        s1 == IF id \in DOMAIN s.qi
              THEN [remove_query(s, id) EXCEPT !.ps[p].cleaned = "true"]
              ELSE [s EXCEPT !.ps[p].cleaned = "false"]
    IN  IF res = "fail" THEN Suspend(s1, p, "err_edit")
        ELSE IF res = "empty" THEN Return(s1, p)
        ELSE Suspend(s1, p, "send_media")

\* coroutine p is suspended at await pc and is resumed with the result of
\* the awaited call
At(p, pc) == procs[p].pc = pc /\ ~procs[p].must_cancel

Step(s) == Commit(s) /\ UNCHANGED <<prompting, nextId, now, retried>>

\* a task that cancelled itself is resumed with CancelledError, which derives
\* from BaseException: no handler of process_download_callback or
\* handle_timeout catches it
cancelled_error(p) ==
    /\ procs[p].pc # "idle"
    /\ procs[p].must_cancel
    /\ Step(Done(Cur, p))

\* a click on a download button: process_callback starts and awaits
\* callback.answer (bot.py:139)
process_callback(L, id) ==
    /\ id < nextId
    /\ surface[id] = "download"
    /\ HasFreeProc(L)
    /\ Step([Cur EXCEPT !.ps[FreeProc] =
                 [Idle EXCEPT !.kind = "click", !.pc = "cb_answer",
                              !.id = id]])

\* a click on a Try Again button: process_try_again_callback starts and
\* awaits callback.answer (bot.py:979)
process_try_again_callback(L, id) ==
    /\ id < nextId
    /\ surface[id] = "perm"
    /\ HasFreeProc(L)
    /\ Commit([Cur EXCEPT !.ps[FreeProc] =
                 [Idle EXCEPT !.kind = "try_again", !.pc = "ta_answer",
                              !.id = id, !.first = id \notin retried]])
    /\ retried' = retried \cup {id}
    /\ UNCHANGED <<prompting, nextId, now>>

\* bot.py:979-988: then process_callback is called and awaits callback.answer
on_try_again_answered(s, p, ok) ==
    IF ok THEN Suspend(s, p, "cb_answer") ELSE Done(s, p)

try_again_answered(p, ok) ==
    /\ At(p, "ta_answer")
    /\ Step(on_try_again_answered(Cur, p, ok))

\* a handler coroutine starts in the free slot q and reaches its first await
Spawn(s, q, kind, pc, id) ==
    [s EXCEPT !.ps[q] = [Idle EXCEPT !.kind = kind, !.pc = pc, !.id = id]]

\* "/start download_<uuid>_<type>": cmd_start, after bot.get_me, finds the
\* uuid in query_info and awaits message.answer (bot.py:160-190); for a uuid
\* that is not stored it only sends the welcome text
cmd_start(L, id) ==
    /\ id < nextId
    /\ id \in DOMAIN query_info
    /\ HasFreeProc(L)
    /\ Step(Spawn(Cur, FreeProc, "deep_link", "dl_answer", id))

\* bot.py:187-219: for an inline query cmd_start asks the user to click Try
\* Again and dispatches nothing; for a direct query it calls
\* process_callback, which awaits callback.answer.  A raising message.answer
\* or a query removed meanwhile (KeyError at bot.py:201) ends in the handler
\* of bot.py:220-222 and the welcome text.
on_start_answered(s, p, ok) ==
    LET id == s.ps[p].id IN
    IF ~ok \/ id \notin DOMAIN s.qi THEN Done(s, p)
    ELSE IF s.qi[id].inline THEN Done(s, p)
    ELSE Suspend(s, p, "cb_answer")

start_answered(p, ok) ==
    /\ At(p, "dl_answer")
    /\ Step(on_start_answered(Cur, p, ok))

\* bot.py:139-149 and 346-425
on_callback_answered(s, p, ok, user) ==
    IF ok THEN Enter(cancel_timeout_task(s, s.ps[p].id, p), p, user)
    ELSE Done(s, p)

callback_answered(p, ok, user) ==
    /\ At(p, "cb_answer")
    /\ Step(on_callback_answered(Cur, p, ok, user))

\* bot.py:347: "Expired, do a new query"
expired_answered(p, ok) ==
    /\ At(p, "expired_answer")
    /\ Step(IF ok THEN Return(Cur, p) ELSE Escape(Cur, p))

\* bot.py:358: "This is not your message"
unauthorized_answered(p, ok) ==
    /\ At(p, "unauth_answer")
    /\ Step(IF ok THEN Return(Cur, p) ELSE Escape(Cur, p))

\* bot.py:373-376 and 414-425: the dummy message is sent and deleted
on_dm_probed(s, p, ok) ==
    IF ok THEN Suspend(s, p, "proc_edit") ELSE PermissionRequired(s, p)

dm_probed(p, ok) ==
    /\ At(p, "dm_probe")
    /\ Step(on_dm_probed(Cur, p, ok))

\* bot.py:386-403: the permission-required keyboard is shown
on_permission_shown(s, p, ok) ==
    LET id == s.ps[p].id IN
    IF ok
    THEN LET s1 == [s EXCEPT !.sf[id] = "perm"]
         IN  Suspend(IF id \in DOMAIN s1.qi THEN remove_query(s1, id)
                     ELSE s1, p, "perm_answer")
    ELSE Return(s, p)

permission_shown(p, ok) ==
    /\ At(p, "perm_edit")
    /\ Step(on_permission_shown(Cur, p, ok))

\* bot.py:399-407
permission_answered(p, ok) ==
    /\ At(p, "perm_answer")
    /\ Step(Return(Cur, p))

\* bot.py:414-446: the processing keyboard is shown, then fetch (blocking)
\* and parse_media_response, which awaits the content probes of a redirect
\* or picker response
on_processing_shown(L, s, p, ok, mode, shape) ==
    LET id == s.ps[p].id
        tr == Trigger(s.ps[p])
        s1 == [s EXCEPT !.sf[id] = "processing"]
        s2 == [s1 EXCEPT !.fe[id][tr] = Bump(L, @)]
    IN  IF ~ok THEN ExceptPath(s, p)
        ELSE IF mode \notin {"auto", "audio"} THEN ExceptPath(s1, p)
        ELSE IF shape = "probe" THEN Suspend(s2, p, "probe")
        ELSE AfterParse(s2, p, IF shape = "error" THEN "fail" ELSE "ok")

processing_shown(L, p, ok, mode, shape) ==
    /\ At(p, "proc_edit")
    /\ Auto(procs[p]) => mode = "auto"
    /\ shape \in {"error", "tunnel", "probe"}
    /\ Step(on_processing_shown(L, Cur, p, ok, mode, shape))

\* bot.py:436-474: the content probes of parse_media_response returned
probes_returned(p, res) ==
    /\ At(p, "probe")
    /\ res \in ParseResults
    /\ Step(AfterParse(Cur, p, res))

\* bot.py:449-463 and 532
on_error_text_shown(s, p, ok) ==
    IF ok THEN Return([s EXCEPT !.sf[s.ps[p].id] = "errtext"], p)
    ELSE ExceptPath(s, p)

error_text_shown(p, ok) ==
    /\ At(p, "err_edit")
    /\ Step(on_error_text_shown(Cur, p, ok))

\* what an awaited send of send_media_to_dm gives: the messages sent ("ok":
\* the first one holds the photo, video, audio or document that the code
\* reads the file_id from; "ok_no_id": it holds none of them), or an
\* exception whose text holds "Forbidden: bot was blocked by the user", holds
\* "bot can't initiate conversation", or holds neither
SendOutcomes == {"ok", "ok_no_id", "blocked", "cant_initiate", "error"}

\* the send did not raise
Sent(o) == o \in {"ok", "ok_no_id"}

\* a handler that does not look at the text of the exception
FailureUnclassified(o) == [dm_sent |-> FALSE, first |-> "None"]

\* the handler of send_media_to_dm (bot.py:323-334): (False, True) for a user
\* who blocked the bot or never started it, (False, None) otherwise
Failure(o) ==
    [dm_sent |-> FALSE,
     first |-> IF o \in {"blocked", "cant_initiate"} THEN "True" ELSE "None"]

\* bot.py:476-509: what process_download_callback awaits next for the
\* result (dm_sent, first_file_id) of send_media_to_dm
AfterDelivery(result) ==
    IF result.dm_sent THEN "upd_orig"
    ELSE IF result.first # "None" THEN "noperm_edit"
    ELSE "dmfail_edit"

\* bot.py:472-509: send_media_to_dm returned, dm being what its sends gave
on_media_sent(L, s, p, dm) ==
    LET id == s.ps[p].id
        tr == Trigger(s.ps[p])
        result == IF Sent(dm)
                  THEN [dm_sent |-> TRUE,
                        first |-> IF dm = "ok" THEN "file_id" ELSE "None"]
                  ELSE Failure(dm)
    IN  Suspend(IF result.dm_sent THEN [s EXCEPT !.de[id][tr] = Bump(L, @)]
                ELSE s, p, AfterDelivery(result))

media_sent(L, p, dm) ==
    /\ At(p, "send_media")
    /\ dm \in SendOutcomes
    /\ Step(on_media_sent(L, Cur, p, dm))

\* bot.py:478-496
on_no_permission_shown(s, p, ok) ==
    IF ok THEN Return([s EXCEPT !.sf[s.ps[p].id] = "perm"], p)
    ELSE ExceptPath(s, p)

no_permission_shown(p, ok) ==
    /\ At(p, "noperm_edit")
    /\ Step(on_no_permission_shown(Cur, p, ok))

\* bot.py:497-509
on_delivery_error_shown(s, p, ok) ==
    IF ok THEN Return([s EXCEPT !.sf[s.ps[p].id] = "error"], p)
    ELSE ExceptPath(s, p)

delivery_error_shown(p, ok) ==
    /\ At(p, "dmfail_edit")
    /\ Step(on_delivery_error_shown(Cur, p, ok))

\* bot.py:516-532: update_original_message catches every exception
on_original_updated(s, p, ok) ==
    Return(IF ok THEN [s EXCEPT !.sf[s.ps[p].id] = "media"] ELSE s, p)

original_updated(p, ok) ==
    /\ At(p, "upd_orig")
    /\ Step(on_original_updated(Cur, p, ok))

\* bot.py:537-561: the error keyboard is shown (or not), then the cleanup
\* "download_uuid in self.query_info and not query_info_cleaned", where
\* query_info_cleaned is bound at bot.py:440 only
on_fallback_shown(s, p, ok) ==
    LET id == s.ps[p].id
        s1 == IF ok THEN [s EXCEPT !.sf[id] = "error"] ELSE s
    IN  IF id \in DOMAIN s1.qi
        THEN IF s.ps[p].cleaned = "unbound" THEN Escape(s1, p)
             ELSE IF s.ps[p].cleaned = "false"
                  THEN Suspend(remove_query(s1, id), p, "fail_answer")
             ELSE Suspend(s1, p, "fail_answer")
        ELSE Suspend(s1, p, "fail_answer")

fallback_shown(p, ok) ==
    /\ At(p, "fallback_edit")
    /\ Step(on_fallback_shown(Cur, p, ok))

\* bot.py:561-562
on_failure_answered(s, p, ok) ==
    IF ok THEN Return(s, p) ELSE Escape(s, p)

failure_answered(p, ok) ==
    /\ At(p, "fail_answer")
    /\ Step(on_failure_answered(Cur, p, ok))

\* ---- the timeout task ----
\* a timeout task that dispatches without looking the uuid up
delayed_auto_download_unchecked(p) ==
    /\ procs[p].pc = "sleep" /\ ~procs[p].must_cancel
    /\ Commit(IF procs[p].is_inline THEN Enter(Cur, p, 1)
              ELSE Suspend(Cur, p, "get_chat"))
    /\ UNCHANGED <<prompting, nextId, now, retried>>

\* a timeout task that ends after its sleep without dispatching
delayed_auto_download_idle(p) ==
    /\ At(p, "sleep")
    /\ Step(Done(Cur, p))

\* delayed_auto_download after asyncio.sleep (bot.py:758-767, 820-830) and
\* handle_timeout up to its first awaited call (bot.py:861-932)
delayed_auto_download(p) ==
    /\ At(p, "sleep")
    /\ LET id == procs[p].id IN
       Step(IF id \notin DOMAIN query_info THEN Done(Cur, p)
            ELSE IF procs[p].is_inline
                 THEN Enter(Cur, p, query_info[id].from_user_id)
                 ELSE Suspend(Cur, p, "get_chat"))

\* handle_timeout from the return of bot.get_chat (bot.py:901-932).  user_id
\* was read at bot.py:870; uuids are never reused, so it is the stored sender
\* whenever the lookup of bot.py:346 still finds the query.
chat_returned(p, ok) ==
    /\ At(p, "get_chat")
    /\ LET id == procs[p].id
           user_id == IF id \in DOMAIN query_info
                      THEN query_info[id].from_user_id ELSE 0
       IN  Step(IF ok THEN Enter(Cur, p, user_id)
                ELSE Done(remove_query(Cur, id), p))

\* the handlers that submit a query and arm its timeout task
Submissions(L) ==
    \/ \E u \in Requesters : process_inline_query(L, u)
    \/ \E u \in Requesters : handle_incoming_message(L, u)
    \/ \E i \in Ids, ok \in BOOLEAN : send_photo_returns(L, i, ok)
    \/ \E i \in Ids : process_chosen_inline_result(L, i)

\* the coroutines that dispatch a download
Dispatches(L) ==
    \/ \E i \in Ids : process_callback(L, i)
    \/ \E i \in Ids : process_try_again_callback(L, i)
    \/ \E i \in Ids : cmd_start(L, i)
    \/ \E p \in ProcIds, ok \in BOOLEAN : start_answered(p, ok)
    \/ \E p \in ProcIds : cancelled_error(p)
    \/ \E p \in ProcIds, ok \in BOOLEAN : try_again_answered(p, ok)
    \/ \E p \in ProcIds, ok \in BOOLEAN, u \in Users :
           callback_answered(p, ok, u)
    \/ \E p \in ProcIds, ok \in BOOLEAN : expired_answered(p, ok)
    \/ \E p \in ProcIds, ok \in BOOLEAN : unauthorized_answered(p, ok)
    \/ \E p \in ProcIds, ok \in BOOLEAN : dm_probed(p, ok)
    \/ \E p \in ProcIds, ok \in BOOLEAN : permission_shown(p, ok)
    \/ \E p \in ProcIds, ok \in BOOLEAN : permission_answered(p, ok)
    \/ \E p \in ProcIds, ok \in BOOLEAN, m \in Modes :
           \E shape \in {"error", "tunnel", "probe"} :
               processing_shown(L, p, ok, m, shape)
    \/ \E p \in ProcIds, res \in ParseResults :
           probes_returned(p, res)
    \/ \E p \in ProcIds, ok \in BOOLEAN : error_text_shown(p, ok)
    \/ \E p \in ProcIds, dm \in SendOutcomes :
           media_sent(L, p, dm)
    \/ \E p \in ProcIds, ok \in BOOLEAN : no_permission_shown(p, ok)
    \/ \E p \in ProcIds, ok \in BOOLEAN : delivery_error_shown(p, ok)
    \/ \E p \in ProcIds, ok \in BOOLEAN : original_updated(p, ok)
    \/ \E p \in ProcIds, ok \in BOOLEAN : fallback_shown(p, ok)
    \/ \E p \in ProcIds, ok \in BOOLEAN : failure_answered(p, ok)
    \/ \E p \in ProcIds : delayed_auto_download(p)
    \/ \E p \in ProcIds, ok \in BOOLEAN : chat_returned(p, ok)

\* the whole handler: every operation, on several queries
Next ==
    \/ Submissions(Full)
    \/ Dispatches(Full)
    \/ check_expired_messages_task(Full)

Spec == Init /\ [][Next]_vars

\* the dispatches that race for one query
NextRace ==
    \/ Submissions(Race)
    \/ Dispatches(Race)

SpecRace == Init /\ [][NextRace]_vars

\* queries for which no dispatch is ever triggered, and the monitor loop
NextAge ==
    \/ \E u \in Requesters : process_inline_query(Age, u)
    \/ \E u \in Requesters : handle_incoming_message(Age, u)
    \/ \E i \in Ids : send_photo_returns(Age, i, FALSE)
    \/ check_expired_messages_task(Age)

SpecAge == Init /\ [][NextAge]_vars

\* the steps of the timeout tasks
TimerSteps(L) ==
    \/ \E p \in ProcIds : delayed_auto_download(p)
    \/ \E p \in ProcIds, ok \in BOOLEAN : chat_returned(p, ok)
    \/ \E p \in ProcIds : cancelled_error(p)
    \/ \E p \in ProcIds, ok \in BOOLEAN : dm_probed(p, ok)
    \/ \E p \in ProcIds, ok \in BOOLEAN : permission_shown(p, ok)
    \/ \E p \in ProcIds, ok \in BOOLEAN : permission_answered(p, ok)
    \/ \E p \in ProcIds, ok \in BOOLEAN :
           \E shape \in {"error", "tunnel", "probe"} :
               processing_shown(L, p, ok, "auto", shape)
    \/ \E p \in ProcIds, res \in ParseResults :
           probes_returned(p, res)
    \/ \E p \in ProcIds, ok \in BOOLEAN : error_text_shown(p, ok)
    \/ \E p \in ProcIds, dm \in SendOutcomes :
           media_sent(L, p, dm)
    \/ \E p \in ProcIds, ok \in BOOLEAN : no_permission_shown(p, ok)
    \/ \E p \in ProcIds, ok \in BOOLEAN : delivery_error_shown(p, ok)
    \/ \E p \in ProcIds, ok \in BOOLEAN : original_updated(p, ok)
    \/ \E p \in ProcIds, ok \in BOOLEAN : fallback_shown(p, ok)
    \/ \E p \in ProcIds, ok \in BOOLEAN : failure_answered(p, ok)

\* queries that nobody clicks and that are never evicted (no more uuids than
\* the capacity), and their timeout tasks
Live == [ids |-> MAX_QUERIES, procs |-> RaceProcs, time |-> 0, count |-> 0]

NextLive ==
    \/ Submissions(Live)
    \/ TimerSteps(Live)

\* the event loop resumes a task once its asyncio.sleep is over or the call
\* it awaits has returned or raised (every network call has a timeout)
EventLoop ==
    \A p \in ProcIds :
        /\ WF_vars(delayed_auto_download(p))
        /\ WF_vars(\E ok \in BOOLEAN : chat_returned(p, ok))

SpecLive == Init /\ [][NextLive]_vars /\ EventLoop

\* ---- MediaFetcher.fetch ----
\* len(self.apis) (media_fetcher.py:255-260) and the rounds of "for x in
\* range(2)" (media_fetcher.py:294)
NumApis == 4
Rounds == 2

\* what requests.post and the lines after it do for one mirror:
\*   "media"      status code 200, the body validates as a MediaResponse with
\*                status tunnel, redirect or picker
\*   "error"      status code 200, the body validates, its status is "error"
\*   "http_error" another status code, the body is JSON with an "error"
\*   "http_json"  another status code, the body is JSON without "error"
\*   "http_other" another status code, the body is no JSON
\*   "malformed"  status code 200, response.json() or model_validate raises
\*   "transport"  requests.post raises (timeout, connection error)
Outcomes == {"media", "error", "http_error", "http_json", "http_other",
             "malformed", "transport"}

\* error_text is None before the first response that binds it
NoError == [kind |-> "none", api |-> 0]

\* a call of fetch that is about to post to the first mirror
InitFetch ==
    /\ InitBot
    /\ parse_call = NotCalled /\ prober = NotCalled
    /\ deliver_call = NotCalled /\ gather_call = NotCalled
    /\ fetch_call = [pc |-> "post", x |-> 0, api |-> 1,
                     error_text |-> NoError, log |-> <<>>,
                     result |-> [status |-> "none", error |-> NoError,
                                 api |-> 0]]

\* a fetch that gives up after the first round
NextPostOneRound(c) ==
    IF c.api < NumApis THEN [c EXCEPT !.api = @ + 1]
    ELSE [c EXCEPT !.pc = "returned",
                   !.result = [status |-> "error", error |-> c.error_text,
                               api |-> 0]]

\* the position after the body of the inner loop fell through
NextPost(c) ==
    IF c.api < NumApis THEN [c EXCEPT !.api = @ + 1]
    ELSE IF c.x + 1 < Rounds THEN [c EXCEPT !.x = @ + 1, !.api = 1]
    ELSE [c EXCEPT !.pc = "returned",
                   !.result = [status |-> "error", error |-> c.error_text,
                               api |-> 0]]

\* one iteration of the inner loop of fetch (media_fetcher.py:295-318) and,
\* after the last one, the return of media_fetcher.py:322
fetch_step(c, o) ==
    LET c1 == [c EXCEPT !.log = Append(@, [api |-> c.api, outcome |-> o])]
    IN  IF o \in {"media", "error"}
        THEN [c1 EXCEPT !.pc = "returned",
                        !.result = [status |-> o,
                                    error |-> IF o = "error"
                                              THEN [kind |-> "given",
                                                    api |-> c.api]
                                              ELSE NoError,
                                    api |-> c.api]]
        ELSE IF o = "http_error"
             THEN NextPost([c1 EXCEPT !.error_text =
                                          [kind |-> "given", api |-> c.api]])
        ELSE IF o = "http_json"
             THEN NextPost([c1 EXCEPT !.error_text =
                                          [kind |-> "unknown", api |-> c.api]])
        ELSE NextPost(c1)

post_returns(o) ==
    /\ fetch_call.pc = "post"
    /\ fetch_call' = fetch_step(fetch_call, o)
    /\ UNCHANGED <<bot_vars, parse_call, prober, deliver_call, gather_call>>

NextFetch == \E o \in Outcomes : post_returns(o)

SpecFetch == InitFetch /\ [][NextFetch]_vars

\* ---- parse_media_response ----
MaxItems == 5

\* a PickerItem (models.py:15-18) and the result of check_url_has_content
\* for its url.  The thumbnail only decorates the media item and is left
\* out.  A locator that passed the probe is a URL, so that fix_url and the
\* InputMedia constructors do not raise for it (media_fetcher.py:155-159).
PickerItems == [type : {"photo", "video", "gif"}, has_content : BOOLEAN]

RECURSIVE SeqsUpTo(_, _)
\* the sequences over S of length n or less
SeqsUpTo(S, n) ==
    IF n = 0 THEN {<<>>}
    ELSE LET shorter == SeqsUpTo(S, n - 1)
         IN  shorter \cup {Append(q, x) : q \in {t \in shorter : Len(t) = n - 1},
                                          x \in S}

\* the fields of a MediaResponse (models.py:21-38) that
\* parse_media_response reads; picker None and [] are both <<>>; audio and
\* url say whether the locator is given; has_content is the result of
\* check_url_has_content for the locator that is probed; raises says
\* whether building the media item from the locator raises
Plain == [status |-> "error", picker |-> <<>>, audio |-> FALSE, url |-> FALSE,
          type |-> "file", has_content |-> FALSE, raises |-> FALSE]

Responses ==
    {Plain}
      \cup {[Plain EXCEPT !.status = "picker", !.picker = q] :
               q \in SeqsUpTo(PickerItems, MaxItems)}
      \cup {r \in [status : {"tunnel", "redirect"}, picker : {<<>>},
                    audio : BOOLEAN, url : BOOLEAN,
                    type : {"gif", "video", "photo", "audio", "file"},
                    has_content : BOOLEAN, raises : BOOLEAN] :
               (r.status = "redirect" /\ r.has_content) => ~r.raises}

\* ParsedMediaResponse() (models.py:101-113)
NewResult == [media_items |-> <<>>, success |-> TRUE, error_message |-> "None",
              error_count |-> 0, total_count |-> 0]

\* ParsedMediaResponse.success_count, has_errors (models.py:115-123)
success_count(result) == Len(result.media_items)

has_errors(result) == result.error_count > 0

\* bot.py:467-468
partial_success(result) == has_errors(result) /\ success_count(result) > 0

\* the media class of a single asset (media_fetcher.py:213-233)
MediaOf(type) ==
    CASE type = "video" -> "InputMediaVideo"
      [] type = "photo" -> "InputMediaPhoto"
      [] type = "gif" -> "InputMediaAnimation"
      [] type = "audio" -> "InputMediaAudio"
      [] OTHER -> "InputMediaDocument"

RECURSIVE picker_loop_keeps_failed(_, _, _)
\* a loop over the picker that appends the items whose probe failed as well
picker_loop_keeps_failed(picker, index, result) ==
    IF index > Len(picker) THEN result
    ELSE LET item == picker[index]
             counted == IF item.has_content THEN result
                        ELSE [result EXCEPT !.error_count = @ + 1]
         IN  picker_loop_keeps_failed(picker, index + 1,
                 [counted EXCEPT !.media_items =
                     Append(@, [media |-> MediaOf(item.type),
                                src |-> index])])

RECURSIVE picker_loop(_, _, _)
\* "for index, item in enumerate(response.picker)" from item index on
\* (media_fetcher.py:122-159); src is the item the media was built from
picker_loop(picker, index, result) ==
    IF index > Len(picker) THEN result
    ELSE LET item == picker[index]
         IN  picker_loop(picker, index + 1,
                 IF ~item.has_content
                 THEN [result EXCEPT !.error_count = @ + 1]
                 ELSE [result EXCEPT !.media_items =
                          Append(@, [media |-> MediaOf(item.type),
                                     src |-> index])])

\* the calls of check_url_has_content that parse_media_response awaits for
\* a tunnel or redirect response: the audio locator is looked at first, the
\* file locator only when there is no audio locator (media_fetcher.py:176-198)
single_probes(response) ==
    IF response.audio THEN (IF response.status # "tunnel" THEN 1 ELSE 0)
    ELSE IF response.url THEN (IF response.status # "tunnel" THEN 1 ELSE 0)
    ELSE 0

\* media_fetcher.py:241-244
Unhandled(result) ==
    [result EXCEPT !.success = FALSE,
                   !.error_message = "Unable to process this media type"]

\* media_fetcher.py:234-240
UrlError(result) ==
    [result EXCEPT !.error_count = 1, !.success = FALSE,
                   !.error_message = "Failed to process media URL"]

\* media_fetcher.py:84-250
parse_media_response(response) ==
    IF response.status = "error"
    THEN [NewResult EXCEPT !.success = FALSE, !.error_message = "error"]
    ELSE IF response.status = "picker" /\ response.picker # <<>>
    THEN LET r1 == [NewResult EXCEPT !.total_count = Len(response.picker)]
             r2 == picker_loop(response.picker, 1, r1)
             r3 == [r2 EXCEPT !.success = Len(r2.media_items) > 0]
         IN  IF r3.success THEN r3
             ELSE [r3 EXCEPT !.error_message =
                                 "Failed to process all media items"]
    ELSE IF response.status \in {"tunnel", "redirect"}
    THEN LET r1 == [NewResult EXCEPT !.total_count = 1] IN
         IF response.audio
         THEN IF response.status # "tunnel"
              THEN LET r2 == IF ~response.has_content
                             THEN [r1 EXCEPT !.error_count = 1,
                                             !.success = FALSE]
                             ELSE r1
                   IN  [r2 EXCEPT !.error_message =
                           "Failed to download, audio appears to be empty"]
              ELSE IF response.raises THEN UrlError(r1)
              ELSE [r1 EXCEPT !.media_items =
                       Append(@, [media |-> "InputMediaAudio", src |-> 1])]
         ELSE IF response.url
         THEN IF response.status # "tunnel" /\ ~response.has_content
              THEN [r1 EXCEPT !.error_count = 1, !.success = FALSE,
                              !.error_message =
                           "Failed to download, file appears to be empty"]
              ELSE IF response.raises THEN UrlError(r1)
              ELSE [r1 EXCEPT !.media_items =
                       Append(@, [media |-> MediaOf(response.type),
                                  src |-> 1])]
         ELSE Unhandled(r1)
    ELSE Unhandled(NewResult)

\* a call of parse_media_response with any response
InitParse ==
    /\ InitBot
    /\ fetch_call = NotCalled /\ prober = NotCalled
    /\ deliver_call = NotCalled /\ gather_call = NotCalled
    /\ \E response \in Responses :
          parse_call = [pc |-> "called", response |-> response,
                        result |-> NewResult]

parse_returns ==
    /\ parse_call.pc = "called"
    /\ parse_call' = [parse_call EXCEPT
                         !.pc = "returned",
                         !.result = parse_media_response(parse_call.response)]
    /\ UNCHANGED <<bot_vars, fetch_call, prober, deliver_call, gather_call>>

NextParse == parse_returns

SpecParse == InitParse /\ [][NextParse]_vars

\* ---- check_url_has_content ----
MaxUrls == 2
MaxCalls == 2
\* maxsize of the lru_cache (100 at media_fetcher.py:38), scaled down
MaxCache == 1

Urls == 1..MaxUrls
Calls == 1..MaxCalls

\* what a HEAD request gives:
\*   "content"    status code 200 and a Content-Length above 22
\*   "empty"      status code 200 and a Content-Length of 22 or less
\*   "no_length"  status code 200 and no Content-Length header
\*   "status"     another status code
\*   "bad_length" status code 200 and a Content-Length that is no number
\*   "error"      the request raises (timeout, connection error)
HeadOutcomes == {"content", "empty", "no_length", "status", "bad_length",
                 "error"}

\* "resp.status_code == 200 and int(resp.headers.get('Content-Length', 0))
\* > 22" (media_fetcher.py:42-45, 69-78): a value or the exception raised
HeadResult(o) ==
    CASE o = "content" -> "True"
      [] o \in {"empty", "no_length", "status"} -> "False"
      [] o = "bad_length" -> "ValueError"
      [] o = "error" -> "RequestError"

\* a handler that catches the errors of the request only
CaughtRequestErrors(r) == IF r = "RequestError" THEN "False" ELSE r

\* "except Exception" of media_fetcher.py:46, 63 and 79: the function goes
\* on as after a negative answer
Caught(r) == IF r \in {"True", "False"} THEN r ELSE "False"

\* the position of url in the cache, 0 if it is not there
CachePos(cache, url) ==
    IF \E k \in 1..Len(cache) : cache[k].url = url
    THEN CHOOSE k \in 1..Len(cache) : cache[k].url = url
    ELSE 0

Without(q, k) == [j \in 1..(Len(q) - 1) |-> IF j < k THEN q[j] ELSE q[j + 1]]

\* _sync_url_has_content behind functools.lru_cache (media_fetcher.py:38-47):
\* a stored url is answered from the cache; otherwise the function runs, o
\* being what its HEAD request gives, and whatever it returns is stored, the
\* least recently used entry making room
sync_url_has_content(cache, url, o) ==
    LET k == CachePos(cache, url) IN
    IF k # 0
    THEN [value |-> cache[k].value, heads |-> 0,
          cache |-> Append(Without(cache, k), cache[k])]
    ELSE LET r == Caught(HeadResult(o))
             stored == Append(cache, [url |-> url, value |-> r])
         IN  [value |-> r, heads |-> 1,
              cache |-> IF r \notin {"True", "False"} THEN cache
                        ELSE IF Len(stored) > MaxCache THEN Tail(stored)
                        ELSE stored]

\* no call is made in the slot
NoCall == [pc |-> "idle", url |-> 0, heads |-> 0, got |-> "none"]

\* a call of check_url_has_content returns r for url; heads counts its HEAD
\* requests, got is what the last of them gave
Returned(s, c, r) ==
    [s EXCEPT !.calls[c] = NoCall,
              !.last[s.calls[c].url] =
                  [result |-> IF r \in {"True", "False"} THEN r ELSE "raised",
                   heads |-> s.calls[c].heads, got |-> s.calls[c].got]]

\* check_url_has_content up to "await client.head" (media_fetcher.py:55-69)
on_called(s, c, url, o) ==
    LET r == sync_url_has_content(s.cache, url, o)
        s1 == [s EXCEPT !.cache = r.cache,
                        !.calls[c] = [pc |-> "head", url |-> url,
                                      heads |-> r.heads,
                                      got |-> IF r.heads = 1 THEN o
                                              ELSE "none"]]
    IN  IF Caught(r.value) = "True" THEN Returned(s1, c, "True") ELSE s1

\* check_url_has_content from the return of client.head, which gives o
\* (media_fetcher.py:69-81); o2 is what the HEAD request of
\* _sync_url_has_content gives if the url is no longer stored
on_head_returned(s, c, o, o2) ==
    LET url == s.calls[c].url
        s1 == [s EXCEPT !.calls[c].heads = @ + 1, !.calls[c].got = o]
        r == HeadResult(o)
    IN  IF r = "True"
        THEN LET r2 == sync_url_has_content(s1.cache, url, o2)
                 s2 == [s1 EXCEPT !.cache = r2.cache,
                                  !.calls[c].heads = @ + r2.heads,
                                  !.calls[c].got = IF r2.heads = 1 THEN o2
                                                   ELSE @]
             IN  Returned(s2, c, IF r2.value \in {"True", "False"}
                                 THEN "True" ELSE Caught(r2.value))
        ELSE Returned(s1, c, Caught(r))

\* the cache is empty and no call is in flight
InitProber ==
    /\ InitBot
    /\ fetch_call = NotCalled /\ parse_call = NotCalled
    /\ deliver_call = NotCalled /\ gather_call = NotCalled
    /\ prober = [cache |-> <<>>,
                 calls |-> [c \in Calls |-> NoCall],
                 last |-> [u \in Urls |-> [result |-> "none", heads |-> 0,
                                           got |-> "none"]]]

\* o is the answer to the HEAD request of _sync_url_has_content, which is
\* sent only for a url that is not stored
check_url_has_content(c, url, o) ==
    /\ prober.calls[c].pc = "idle"
    /\ CachePos(prober.cache, url) # 0 => o = "content"
    /\ prober' = on_called(prober, c, url, o)
    /\ UNCHANGED <<bot_vars, fetch_call, parse_call, deliver_call, gather_call>>

head_returned(c, o, o2) ==
    /\ prober.calls[c].pc = "head"
    /\ (o # "content" \/ CachePos(prober.cache, prober.calls[c].url) # 0)
          => o2 = o
    /\ prober' = on_head_returned(prober, c, o, o2)
    /\ UNCHANGED <<bot_vars, fetch_call, parse_call, deliver_call, gather_call>>

NextProber ==
    \/ \E c \in Calls, url \in Urls, o \in HeadOutcomes :
           check_url_has_content(c, url, o)
    \/ \E c \in Calls, o, o2 \in HeadOutcomes : head_returned(c, o, o2)

SpecProber == InitProber /\ [][NextProber]_vars

\* ---- BotHandler.send_media_to_dm ----
MaxMedia == 12
\* the step of "range(0, len(media_list), 10)" (bot.py:257)
ChunkSize == 10

\* InputMedia.type of the media items
MediaTypes == {"photo", "video", "audio", "animation", "document"}

\* a slice that takes all the remaining items at once
ChunkRest(i, n) == [j \in 1..(n - i) |-> i + j]

\* media_list[i : i + 10] (bot.py:258); the items are numbered from 1 in the
\* order of the list
Chunk(i, n) ==
    [j \in 1..(IF i + ChunkSize <= n THEN ChunkSize ELSE n - i) |-> i + j]

\* the method that sends a single item (bot.py:279-319)
SendMethod(type) ==
    CASE type = "photo" -> "send_photo"
      [] type = "video" -> "send_video"
      [] type = "audio" -> "send_audio"
      [] OTHER -> "send_document"

\* "return True, first_file_id" (bot.py:321)
Delivered(c, first) ==
    [c EXCEPT !.pc = "returned", !.result = [dm_sent |-> TRUE, first |-> first]]

\* an awaited send raised: "return False, True" or "return False, None"
\* (bot.py:323-334)
NotDelivered(c, o) ==
    [c EXCEPT !.pc = "returned", !.result = Failure(o), !.got = o]

\* send_media_to_dm up to its first await (bot.py:247-319)
on_send_media_to_dm(c) ==
    IF c.n > 1 THEN [c EXCEPT !.pc = "send_media_group", !.i = 0]
    ELSE IF c.n = 1 THEN [c EXCEPT !.pc = SendMethod(c.type)]
    ELSE Delivered(c, "None")

\* bot.py:267-277: first_file_id is read from the first message of the batch
\* that starts at i = 0; 0 is None, k the file_id of the private message
\* that holds item k
FirstFileId(c, o) ==
    IF c.i = 0 /\ o = "ok" THEN Chunk(c.i, c.n)[1] ELSE c.first_file_id

\* one iteration of the loop of bot.py:257-277 from the return of
\* bot.send_media_group
on_media_group_sent(c, o) ==
    IF ~Sent(o) THEN NotDelivered(c, o)
    ELSE LET c1 == [c EXCEPT !.sent = Append(@, Chunk(c.i, c.n)),
                             !.i = @ + ChunkSize,
                             !.first_file_id = FirstFileId(c, o)]
         IN  IF c1.i < c1.n THEN c1
             ELSE Delivered(c1, IF c1.first_file_id # 0 THEN "file_id"
                                ELSE "None")

\* bot.py:279-321 from the return of the method that sends the single item
on_single_sent(c, o) ==
    IF ~Sent(o) THEN NotDelivered(c, o)
    ELSE Delivered([c EXCEPT !.sent = Append(@, <<1>>),
                             !.first_file_id = IF o = "ok" THEN 1 ELSE 0],
                   IF o = "ok" THEN "file_id" ELSE "None")

\* what the originating message holds before the dispatch and after its
\* media was replaced: media is "file_id" or "remote", item the item of the
\* media list it refers to
Prompt == [media |-> "prompt", item |-> 0, class |-> "none"]

\* the media class of media_list[0] itself
ClassOf(type) ==
    CASE type = "photo" -> "InputMediaPhoto"
      [] type = "video" -> "InputMediaVideo"
      [] type = "audio" -> "InputMediaAudio"
      [] type = "animation" -> "InputMediaAnimation"
      [] OTHER -> "InputMediaDocument"

\* BotHandler.create_media_object (bot.py:667-687)
create_media_object(c, file_id) ==
    IF file_id # 0
    THEN [media |-> "file_id", item |-> file_id,
          class |-> CASE c.type = "photo" -> "InputMediaPhoto"
                      [] c.type = "video" -> "InputMediaVideo"
                      [] c.type = "audio" -> "InputMediaAudio"
                      [] OTHER -> "InputMediaDocument"]
    ELSE [media |-> "remote", item |-> 1, class |-> ClassOf(c.type)]

\* update_original_message (bot.py:567-665) for media_count = n, ok saying
\* whether its first awaited call succeeds: the inline message gets the
\* media, or a text when edit_message_media raises; the message of a direct
\* query is deleted (and a text sent for several items)
on_update_original_message(c, ok) ==
    LET media == create_media_object(c, c.first_file_id) IN
    [c EXCEPT !.pc = "updated",
              !.original =
                  IF c.n = 0 THEN @
                  ELSE IF c.is_inline
                  THEN (IF ok THEN media
                        ELSE [media |-> "text", item |-> 0, class |-> "none"])
                  ELSE IF ok
                  THEN [media |-> "deleted", item |-> 0, class |-> "none"]
                  ELSE @]

\* a call of send_media_to_dm with a list of any length
InitDeliver ==
    /\ InitBot
    /\ fetch_call = NotCalled /\ parse_call = NotCalled
    /\ prober = NotCalled /\ gather_call = NotCalled
    /\ \E n \in 0..MaxMedia, type \in MediaTypes, is_inline \in BOOLEAN :
          deliver_call = [pc |-> "called", n |-> n, type |-> type, i |-> 0,
                          sent |-> <<>>, got |-> "none", first_file_id |-> 0,
                          is_inline |-> is_inline, original |-> Prompt,
                          result |-> [dm_sent |-> FALSE, first |-> "None"]]

send_media_to_dm ==
    /\ deliver_call.pc = "called"
    /\ deliver_call' = on_send_media_to_dm(deliver_call)
    /\ UNCHANGED <<bot_vars, fetch_call, parse_call, prober, gather_call>>

media_group_sent(o) ==
    /\ deliver_call.pc = "send_media_group"
    /\ deliver_call' = on_media_group_sent(deliver_call, o)
    /\ UNCHANGED <<bot_vars, fetch_call, parse_call, prober, gather_call>>

single_sent(o) ==
    /\ deliver_call.pc \in {"send_photo", "send_video", "send_audio",
                            "send_document"}
    /\ deliver_call' = on_single_sent(deliver_call, o)
    /\ UNCHANGED <<bot_vars, fetch_call, parse_call, prober, gather_call>>

\* bot.py:511-532: after a delivery that returned True
update_original_message(ok) ==
    /\ deliver_call.pc = "returned"
    /\ deliver_call.result.dm_sent
    /\ deliver_call' = on_update_original_message(deliver_call, ok)
    /\ UNCHANGED <<bot_vars, fetch_call, parse_call, prober, gather_call>>

NextDeliver ==
    \/ send_media_to_dm
    \/ \E o \in SendOutcomes : media_group_sent(o)
    \/ \E o \in SendOutcomes : single_sent(o)
    \/ \E ok \in BOOLEAN : update_original_message(ok)

SpecDeliver == InitDeliver /\ [][NextDeliver]_vars

\* ---- MediaResponse.set_type_and_filename ----
MaxSegments == 2

\* a file name is a sequence of pieces: a piece without a dot, or an
\* extension.  Of each table of models.py:60-71 one extension stands for
\* all, ".gif" is the one the validator singles out, ".txt" is in no table.
\* Names are in lower case (the validator compares the lowered name).
video_extensions == {".mp4"}
image_extensions == {".jpg", ".gif"}
audio_extensions == {".mp3"}
Pieces == {"clip", ".txt"} \cup video_extensions \cup image_extensions
              \cup audio_extensions
Names == SeqsUpTo(Pieces, MaxSegments)

\* "ext in path_lower" for some ext of the table (models.py:72, 78, 87)
AnyIn(extensions, name) == \E k \in 1..Len(name) : name[k] \in extensions

\* the name ends with an extension of the table
EndsWith(extensions, name) == name # <<>> /\ name[Len(name)] \in extensions

\* a validator that looks at the end of the file name only
type_of_suffix(filename) ==
    IF EndsWith(video_extensions, filename) THEN "video"
    ELSE IF EndsWith(image_extensions, filename)
    THEN (IF EndsWith({".gif"}, filename) THEN "gif" ELSE "photo")
    ELSE IF EndsWith(audio_extensions, filename) THEN "audio"
    ELSE "file"

\* models.py:72-96: the type that the validator assigns for the file name
type_of(filename) ==
    IF AnyIn(video_extensions, filename) THEN "video"
    ELSE IF AnyIn(image_extensions, filename)
    THEN (IF AnyIn({".gif"}, filename) THEN "gif" ELSE "photo")
    ELSE IF AnyIn(audio_extensions, filename) THEN "audio"
    ELSE "file"

\* models.py:46-56: the file name of a response that gives none is the last
\* segment of the path of the url if that holds a dot, else "file"
filename_of(data) ==
    IF data.filename # <<>> THEN data.filename
    ELSE IF \E k \in 1..Len(data.last_segment) : data.last_segment[k] # "clip"
    THEN data.last_segment
    ELSE <<"file">>

\* MediaResponse.set_type_and_filename for a response with a url
\* (models.py:40-98): type is the default "file" when the response gives none
set_type_and_filename(data) ==
    [type |-> type_of(filename_of(data)), filename |-> filename_of(data)]

\* the data of a tunnel response with a url: the "type" it carries, if any,
\* its "filename", if any, and the last segment of the path of its url
InitKind ==
    /\ InitBot
    /\ fetch_call = NotCalled /\ prober = NotCalled
    /\ deliver_call = NotCalled /\ gather_call = NotCalled
    /\ \E type \in {"unset", "gif", "video", "photo", "audio", "file"},
          filename \in Names, last_segment \in Names :
          parse_call = [pc |-> "data",
                        data |-> [type |-> type, filename |-> filename,
                                  last_segment |-> last_segment],
                        response |-> Plain, result |-> NewResult]

\* MediaResponse.model_validate(data) (media_fetcher.py:303-304), then the
\* call of parse_media_response with the response (bot.py:436)
model_validate ==
    /\ parse_call.pc = "data"
    /\ parse_call' =
          [parse_call EXCEPT
              !.pc = "called",
              !.response = [Plain EXCEPT
                  !.status = "tunnel", !.url = TRUE,
                  !.type = set_type_and_filename(parse_call.data).type]]
    /\ UNCHANGED <<bot_vars, fetch_call, prober, deliver_call, gather_call>>

NextKind ==
    \/ model_validate
    \/ parse_returns

SpecKind == InitKind /\ [][NextKind]_vars

\* ---- from the parsed result to the delivery ----
\* InputMedia.type of the media classes that parse_media_response builds
TypeOf(media) ==
    CASE media = "InputMediaPhoto" -> "photo"
      [] media = "InputMediaVideo" -> "video"
      [] media = "InputMediaAnimation" -> "animation"
      [] media = "InputMediaAudio" -> "audio"
      [] OTHER -> "document"

\* bot.py:464-474: for a result with success set, process_download_callback
\* calls send_media_to_dm with result.media_items
on_result_success(result) ==
    [pc |-> "called", n |-> Len(result.media_items),
     type |-> IF result.media_items = <<>> THEN "document"
              ELSE TypeOf(result.media_items[1].media),
     i |-> 0, sent |-> <<>>, got |-> "none", first_file_id |-> 0,
     is_inline |-> TRUE, original |-> Prompt,
     result |-> [dm_sent |-> FALSE, first |-> "None"]]

result_success ==
    /\ parse_call.pc = "returned"
    /\ parse_call.result.success
    /\ deliver_call.pc = "none"
    /\ deliver_call' = on_result_success(parse_call.result)
    /\ UNCHANGED <<bot_vars, fetch_call, parse_call, prober, gather_call>>

\* parse_media_response for any response, then the delivery of its result
NextMedia ==
    \/ parse_returns
    \/ result_success
    \/ send_media_to_dm
    \/ \E o \in SendOutcomes : media_group_sent(o)
    \/ \E o \in SendOutcomes : single_sent(o)

SpecMedia == InitParse /\ [][NextMedia]_vars

\* ---- the probes of a picker response ----
MaxPicker == 2

\* the fields of a PickerItem (models.py:15-18) that the picker branch of
\* parse_media_response reads: the type and whether a thumb is given
ThumbItems == [type : {"photo", "video", "gif"}, thumb : BOOLEAN]

\* check_tasks holds two awaitables per item (media_fetcher.py:112-118);
\* positions are counted from 1: 2i - 1 is the probe of the url of item i,
\* 2i the probe of its thumb, or asyncio.sleep(0) when it has none
UrlProbe(i) == 2 * i - 1
ThumbProbe(i) == 2 * i

\* what an awaitable of check_tasks gives: check_url_has_content returns
\* True or False and never raises, asyncio.sleep(0) returns None
ProbeResults(c, k) ==
    IF k % 2 = 0 /\ ~c.picker[k \div 2].thumb THEN {"None"}
    ELSE {"True", "False"}

\* a join that waits for the probes of the urls only
UrlsJoined(c) ==
    \A i \in 1..Len(c.picker) :
        c.check_results[UrlProbe(i)] \notin {"unstarted", "pending"}

\* "await asyncio.gather(*check_tasks)" returns when every awaitable has
\* returned (media_fetcher.py:120)
Joined(c) ==
    \A k \in DOMAIN c.check_results :
        c.check_results[k] \notin {"unstarted", "pending"}

\* media_fetcher.py:112-120: the awaitables are created for all items, then
\* asyncio.gather schedules them all and the coroutine is suspended
on_gather(c) ==
    [c EXCEPT !.pc = "gather",
              !.check_results = [k \in DOMAIN @ |-> "pending"]]

\* one of the scheduled awaitables returns
on_probe_returned(c, k, r) == [c EXCEPT !.check_results[k] = r]

\* media_fetcher.py:122-168 from the return of asyncio.gather: url_has_content
\* is check_results[index * 2] and thumb_has_content check_results[index * 2
\* + 1] if the item has a thumb, else False; thumbnails says for each media
\* item whether it got a thumbnail
on_gathered(c) ==
    LET n == Len(c.picker)
        probed == [i \in 1..n |->
                      [type |-> c.picker[i].type,
                       has_content |-> c.check_results[UrlProbe(i)] = "True"]]
        thumb_has_content == [i \in 1..n |->
                      IF c.picker[i].thumb
                      THEN c.check_results[ThumbProbe(i)] = "True"
                      ELSE FALSE]
        r1 == [NewResult EXCEPT !.total_count = n]
        r2 == picker_loop(probed, 1, r1)
        r3 == [r2 EXCEPT !.success = Len(r2.media_items) > 0]
    IN  [c EXCEPT !.pc = "returned",
                  !.result = IF r3.success THEN r3
                             ELSE [r3 EXCEPT !.error_message =
                                      "Failed to process all media items"],
                  !.thumbnails =
                      [j \in 1..Len(r3.media_items) |->
                          c.picker[r3.media_items[j].src].thumb
                             /\ thumb_has_content[r3.media_items[j].src]]]

\* a call of parse_media_response with a picker response of one item or more
InitGather ==
    /\ InitBot
    /\ fetch_call = NotCalled /\ parse_call = NotCalled
    /\ prober = NotCalled /\ deliver_call = NotCalled
    /\ \E picker \in SeqsUpTo(ThumbItems, MaxPicker) \ {<<>>} :
          gather_call = [pc |-> "called", picker |-> picker,
                         check_results |->
                             [k \in 1..(2 * Len(picker)) |-> "unstarted"],
                         result |-> NewResult, thumbnails |-> <<>>]

gather ==
    /\ gather_call.pc = "called"
    /\ gather_call' = on_gather(gather_call)
    /\ UNCHANGED <<bot_vars, fetch_call, parse_call, prober, deliver_call>>

probe_returned(k, r) ==
    /\ gather_call.pc = "gather"
    /\ k \in DOMAIN gather_call.check_results
    /\ gather_call.check_results[k] = "pending"
    /\ r \in ProbeResults(gather_call, k)
    /\ gather_call' = on_probe_returned(gather_call, k, r)
    /\ UNCHANGED <<bot_vars, fetch_call, parse_call, prober, deliver_call>>

gathered ==
    /\ gather_call.pc = "gather"
    /\ Joined(gather_call)
    /\ gather_call' = on_gathered(gather_call)
    /\ UNCHANGED <<bot_vars, fetch_call, parse_call, prober, deliver_call>>

NextGather ==
    \/ gather
    \/ \E k \in 1..(2 * MaxPicker), r \in {"True", "False", "None"} :
           probe_returned(k, r)
    \/ gathered

SpecGather == InitGather /\ [][NextGather]_vars

\* ---- properties ----
\* positions inside process_download_callback after the lookup and the
\* authorization check (bot.py:360-562)
PastAuth == {"dm_probe", "proc_edit", "probe", "perm_edit", "perm_answer",
             "err_edit", "send_media", "noperm_edit", "dmfail_edit",
             "upd_orig", "fallback_edit", "fail_answer"}

\* coroutine p, inside process_download_callback, is resumed by this step
Resumes(L, p) ==
    \/ \E ok \in BOOLEAN :
        \/ dm_probed(p, ok)
        \/ permission_shown(p, ok)
        \/ permission_answered(p, ok)
        \/ error_text_shown(p, ok)
        \/ no_permission_shown(p, ok)
        \/ delivery_error_shown(p, ok)
        \/ original_updated(p, ok)
        \/ fallback_shown(p, ok)
        \/ failure_answered(p, ok)
        \/ \E m \in Modes, shape \in {"error", "tunnel", "probe"} :
               processing_shown(L, p, ok, m, shape)
    \/ \E res \in ParseResults : probes_returned(p, res)
    \/ \E dm \in SendOutcomes : media_sent(L, p, dm)

\* C1: when a click and the timeout task dispatch the same query
\* concurrently, only one of them gets past the lookup: the resolver
\* (self.fetch) is never called for one uuid both by the dispatch of a click
\* and by the automatic dispatch.
C1_OneTriggerResolves ==
    \A i \in Ids : ~(fetches[i].click >= 1 /\ fetches[i].timer >= 1)

\* C2: two clicks on the same pending query cannot both pass the lookup:
\* the dispatches of clicks call the resolver at most once and deliver the
\* media at most once for a uuid.
C2_ClicksResolveOnce ==
    \A i \in Ids : fetches[i].click <= 1 /\ deliveries[i].click <= 1

\* C3: when a dispatch that passed the lookup and the authorization check
\* finishes, whatever its outcome and whichever call failed on the way, the
\* uuid is no longer in query_info.
C3_FinishedMeansRemoved ==
    [][\A p \in ProcIds :
          (procs[p].pc \in PastAuth /\ Resumes(Full, p)
             /\ procs'[p].pc = "idle")
          => procs[p].id \notin DOMAIN query_info']_vars

\* C4: when a click by someone who is not the stored sender has been answered
\* "This is not your message" and the entry point has returned, the query is
\* still in query_info.
C4_UnauthorizedKeepsQuery ==
    [][\A p \in ProcIds :
          (unauthorized_answered(p, TRUE)
             /\ procs[p].id \in DOMAIN query_info)
          => procs[p].id \in DOMAIN query_info']_vars

\* C5: no exception leaves process_download_callback: after a failure of a
\* message update or of the resolver call, even one that happens before the
\* resolver was called or that is due to an unknown download_type, the
\* handler of the exception runs to its end, the final callback.answer.
C5_NoFaultEscapes ==
    [][\A p \in ProcIds, ok \in BOOLEAN :
          fallback_shown(p, ok) => procs'[p].pc = "fail_answer"]_vars

\* C6: after the permission-required keyboard was shown, the first click on
\* Try Again for the uuid is dispatched for real: it is never answered
\* "Expired".
C6_FirstRetryNotExpired ==
    \A p \in ProcIds :
        ~(procs[p].kind = "try_again" /\ procs[p].first
            /\ procs[p].pc = "expired_answer")

\* C7: after every add_query at most MAX_QUERIES queries are stored; the
\* queries it evicts were inserted before every query that stays (uuids are
\* numbered in insertion order), whatever clicks and dispatches happened on
\* them; the timeout_tasks entry of an evicted query is removed and its task
\* is cancelled.
C7_CapacityFifo ==
    [][nextId' # nextId =>
          LET gone == (DOMAIN query_info \cup {nextId}) \ DOMAIN query_info'
          IN  /\ Cardinality(DOMAIN query_info') <= MAX_QUERIES
              /\ \A e \in gone : \A k \in DOMAIN query_info' : e < k
              /\ \A e \in gone :
                    /\ e \notin DOMAIN timeout_tasks'
                    /\ (e \in DOMAIN timeout_tasks
                          /\ timeout_tasks[e] # Finished)
                       => procs'[timeout_tasks[e]] = Idle]_vars

\* the registry is full after an add has evicted a query: the query of a
\* handle_incoming_message that still awaits send_photo, which nothing else
\* removes
C7_Witness ==
    /\ Cardinality(DOMAIN query_info) = MAX_QUERIES
    /\ \E e \in prompting :
          /\ e \notin DOMAIN query_info
          /\ e \notin DOMAIN timeout_tasks
          /\ \A k \in DOMAIN query_info : e < k

C9_MappingMatchesSequence ==
    /\ DOMAIN query_info = Range(query_timestamps)
    /\ Len(query_timestamps) = Cardinality(Range(query_timestamps))

\* a query was evicted while its handle_incoming_message awaited send_photo,
\* and a later one was dispatched up to the delivery and removed
C9_Witness ==
    /\ \E e \in prompting : e \notin DOMAIN query_info
    /\ \E i \in Ids : surface[i] = "media" /\ i \notin DOMAIN query_info

\* C10: once a dispatch, a click's or the automatic one, is inside
\* process_download_callback and suspended at an awaited call, timeout_tasks
\* holds no entry for its uuid.
C10_DispatchClearsTimer ==
    \A p \in ProcIds :
        procs[p].pc \in PastAuth => procs[p].id \notin DOMAIN timeout_tasks

\* C11: a cancel_timeout_task for the uuid, by a click or by an eviction,
\* does not interrupt an automatic dispatch that is already inside
\* process_download_callback: such a dispatch only ends by its own steps.
C11_CancelSparesStartedDispatch ==
    [][\A p \in ProcIds :
          (procs[p].kind = "timer" /\ procs[p].pc \in PastAuth
             /\ ~procs[p].must_cancel /\ procs'[p].pc = "idle")
          => Resumes(Race, p)]_vars

\* the trigger of the timeout_tasks entry of id has fired: its task is past
\* asyncio.sleep or has ended
Fired(id) ==
    \/ timeout_tasks[id] = Finished
    \/ procs[timeout_tasks[id]].pc # "sleep"

\* C12: in every reachable state, cancel_timeout_task called a second time
\* changes nothing more; called for a uuid without entry it changes nothing;
\* called for an entry whose trigger has already fired it leaves query_info
\* and timeout_tasks unchanged.
C12_CancelIdempotent ==
    \A id \in Ids :
        LET s1 == cancel_timeout_task(Cur, id, 0)
        IN  /\ cancel_timeout_task(s1, id, 0) = s1
            /\ id \notin DOMAIN timeout_tasks => s1 = Cur
            /\ (id \in DOMAIN timeout_tasks /\ Fired(id))
               => s1.qi = query_info /\ s1.tt = timeout_tasks

\* the timeout tasks of id that are still in asyncio.sleep
Sleeping(id) ==
    {p \in ProcIds : procs[p].kind = "timer" /\ procs[p].id = id
                       /\ procs[p].pc = "sleep"}

\* C13: in every reachable state a uuid has at most one timeout task that is
\* pending (arming again cancels the prior one), and the automatic dispatch
\* calls the resolver at most once for a uuid.
C13_OneLiveTrigger ==
    \A id \in Ids :
        /\ Cardinality(Sleeping(id)) <= 1
        /\ fetches[id].timer <= 1

\* C14: when a timeout task comes out of asyncio.sleep and its uuid is no
\* longer in query_info, the task ends there: process_download_callback is
\* not entered, and no message is updated, no resolver call and no delivery
\* is made, and the registry is left as it is.
C14_FireOnAbsentDoesNothing ==
    [][\A p \in ProcIds :
          (delayed_auto_download(p) /\ procs[p].id \notin DOMAIN query_info)
          => /\ procs'[p] = Idle
             /\ surface' = surface
             /\ fetches' = fetches /\ deliveries' = deliveries
             /\ query_info' = query_info
             /\ query_timestamps' = query_timestamps]_vars

\* a timeout task is about to come out of asyncio.sleep and its uuid is no
\* longer in query_info
C14_Witness ==
    \E p \in ProcIds :
        /\ procs[p].kind = "timer" /\ procs[p].pc = "sleep"
        /\ ~procs[p].must_cancel
        /\ procs[p].id \notin DOMAIN query_info

\* the automatic dispatch of id is inside process_download_callback
AutoStarted(id) ==
    \E p \in ProcIds : /\ procs[p].kind = "timer" /\ procs[p].id = id
                       /\ procs[p].pc \in PastAuth

Awaits == {"dm_probe", "perm_edit", "proc_edit", "err_edit", "noperm_edit",
           "dmfail_edit", "upd_orig", "fallback_edit", "fail_answer"}

MaxFaults == 2

\* the results of the external calls of one dispatch: the awaits that raise,
\* the shape of the upstream response, the result of the content probes and
\* of send_media_to_dm
Results ==
    [bad : {B \in SUBSET Awaits : Cardinality(B) <= MaxFaults},
     shape : {"error", "tunnel", "probe"},
     res : ParseResults,
     dm : SendOutcomes]

\* coroutine p is resumed once, the awaited call giving the result in r; the
\* acknowledgements before process_download_callback succeed and the click
\* comes from the sender of the query
Resume(L, s, p, r) ==
    LET pc == s.ps[p].pc
        ok == pc \notin r.bad
        id == s.ps[p].id
        sender == IF id \in DOMAIN s.qi THEN s.qi[id].from_user_id ELSE 0
    IN  IF s.ps[p].must_cancel THEN Done(s, p)
        ELSE CASE pc = "dl_answer" -> on_start_answered(s, p, ok)
               [] pc = "ta_answer" -> on_try_again_answered(s, p, ok)
               [] pc = "cb_answer" -> on_callback_answered(s, p, ok, sender)
               [] pc \in {"expired_answer", "unauth_answer"} ->
                      IF ok THEN Return(s, p) ELSE Escape(s, p)
               [] pc = "dm_probe" -> on_dm_probed(s, p, ok)
               [] pc = "perm_edit" -> on_permission_shown(s, p, ok)
               [] pc = "perm_answer" -> Return(s, p)
               [] pc = "proc_edit" ->
                      on_processing_shown(L, s, p, ok, "auto", r.shape)
               [] pc = "probe" -> AfterParse(s, p, r.res)
               [] pc = "err_edit" -> on_error_text_shown(s, p, ok)
               [] pc = "send_media" -> on_media_sent(L, s, p, r.dm)
               [] pc = "noperm_edit" -> on_no_permission_shown(s, p, ok)
               [] pc = "dmfail_edit" -> on_delivery_error_shown(s, p, ok)
               [] pc = "upd_orig" -> on_original_updated(s, p, ok)
               [] pc = "fallback_edit" -> on_fallback_shown(s, p, ok)
               [] pc = "fail_answer" -> on_failure_answered(s, p, ok)
               [] OTHER -> Done(s, p)

RECURSIVE Run(_, _, _, _)
\* coroutine p runs alone until it ends
Run(L, s, p, r) ==
    IF s.ps[p].pc = "idle" THEN s ELSE Run(L, Resume(L, s, p, r), p, r)

\* the query of the timeout task p is pending and p is in asyncio.sleep
Armed(p) ==
    /\ procs[p].kind = "timer" /\ procs[p].pc = "sleep"
    /\ ~procs[p].must_cancel
    /\ procs[p].id \in DOMAIN query_info
    /\ procs[p].id \in DOMAIN timeout_tasks
    /\ timeout_tasks[procs[p].id] = p

\* the timeout task p fires (bot.get_chat returning for a direct query) and
\* the automatic dispatch runs to its end
AutoRun(L, p, r) ==
    Run(L, Enter(Cur, p, query_info[procs[p].id].from_user_id), p, r)

\* instead, the sender clicks the "auto" button: process_callback cancels the
\* timeout task (bot.py:144) and the dispatch, here in the slot the cancelled
\* task has left, runs to its end
ClickRun(L, p, r) ==
    LET id == procs[p].id
        s0 == cancel_timeout_task(Cur, id, 0)
        s1 == [s0 EXCEPT !.ps[p] = [Idle EXCEPT !.kind = "click",
                                                !.pc = "cb_answer",
                                                !.id = id]]
    IN  Run(L, Enter(s1, p, query_info[id].from_user_id), p, r)

SameTables(a, b) == a.qi = b.qi /\ a.qt = b.qt /\ a.tt = b.tt

\* C16: for the same pending request, the mode "auto" and the same results
\* of every external call, the automatic dispatch and the dispatch of a click
\* leave query_info, query_timestamps and timeout_tasks in the same final
\* state.
C16_AutoAndClickEndAlike ==
    \A p \in ProcIds, r \in Results :
        Armed(p) => SameTables(AutoRun(Full, p, r), ClickRun(Full, p, r))

\* query id is pending with its download buttons, slot q is free and no
\* dispatch of id is under way (its timeout task, if any, is asleep)
Pending(id, q) ==
    /\ id \in DOMAIN query_info
    /\ surface[id] = "download"
    /\ procs[q].pc = "idle"
    /\ \A p \in ProcIds : procs[p].id = id => procs[p].pc = "sleep"

\* the handler of the given kind is called for id in slot q and runs alone to
\* its end
HandlerRun(L, q, id, kind, pc, r) == Run(L, Spawn(Cur, q, kind, pc, id), q, r)

\* what the user got and what the Registry holds
SameOutcome(a, b, id) ==
    /\ a.qi = b.qi /\ a.qt = b.qt
    /\ a.sf[id] = b.sf[id] /\ a.de[id] = b.de[id]

\* C17: for a pending request, inline or direct, and the same results of the
\* external calls, the dispatch triggered by a click on a download button,
\* by a click on Try Again and by "/start download_<uuid>_auto" end with the
\* same message shown, the same deliveries and the same query_info and
\* query_timestamps.
C17_ClickRetryLinkEndAlike ==
    \A q \in ProcIds, id \in Ids, r \in Results :
        Pending(id, q) =>
            LET click == HandlerRun(Race, q, id, "click", "cb_answer", r)
                retry == HandlerRun(Race, q, id, "try_again", "ta_answer", r)
                link == HandlerRun(Race, q, id, "deep_link", "dl_answer", r)
            IN  /\ SameOutcome(click, retry, id)
                /\ SameOutcome(click, link, id)

\* a response in the format of the mirrors' API, whatever its status code
WellFormed(o) == o \in {"media", "error", "http_error"}

\* C18: the first mirror that returns a well-formed response, a well-formed
\* error response included, ends the call of fetch: the response is what
\* fetch returns and no mirror is consulted after it; only a timeout, a
\* connection error or a malformed body makes fetch go on to the next mirror.
\* When the first two mirrors fail at transport level and the third returns
\* a well-formed error body, fetch returns that error and the third mirror
\* was consulted once.
C18_WellFormedEndsFetch ==
    LET log == fetch_call.log IN
    /\ \A k \in 1..Len(log) :
          /\ WellFormed(log[k].outcome)
                => /\ k = Len(log)
                   /\ fetch_call.pc = "returned"
                   /\ fetch_call.result.api = log[k].api
          /\ k < Len(log) => log[k].outcome \in {"transport", "malformed"}
    /\ (/\ Len(log) >= 3
        /\ log[1].outcome = "transport" /\ log[2].outcome = "transport"
        /\ log[3].outcome \in {"error", "http_error"})
       => /\ fetch_call.result.status = "error"
          /\ fetch_call.result.error = [kind |-> "given", api |-> 3]
          /\ Cardinality({k \in 1..Len(log) : log[k].api = 3}) = 1

\* the response shapes of an upstream answer: an error, a picker, a single
\* asset with its audio locator or its file locator
Shaped(response) ==
    \/ response.status \in {"error", "picker"}
    \/ response.audio \/ response.url

\* C19: for every response shape (error, tunnel, redirect, picker, the single
\* asset given as audio locator or as file locator) and every result of the
\* probes, success_count = total_count - error_count in the parsed result,
\* and success is true exactly if success_count > 0.
C19_CountsAddUp ==
    (parse_call.pc = "returned" /\ Shaped(parse_call.response)) =>
        LET result == parse_call.result IN
        /\ success_count(result) = result.total_count - result.error_count
        /\ result.success <=> success_count(result) > 0

\* the indices of the picker items that passed the probe
Survivors(picker) == {i \in 1..Len(picker) : picker[i].has_content}

\* C20: for a picker response with n items of which k fail the content
\* probe, total_count = n, error_count = k, success_count = n - k, the media
\* items are those of the surviving picker items in their order, success is
\* true exactly if n - k > 0 and the partial success of bot.py:467-468
\* exactly if 0 < k < n.
C20_PickerCounts ==
    (parse_call.pc = "returned" /\ parse_call.response.status = "picker") =>
        LET picker == parse_call.response.picker
            result == parse_call.result
            n == Len(picker)
            k == n - Cardinality(Survivors(picker))
            items == result.media_items
        IN  /\ result.total_count = n
            /\ result.error_count = k
            /\ success_count(result) = n - k
            /\ {items[j].src : j \in 1..Len(items)} = Survivors(picker)
            /\ \A i, j \in 1..Len(items) : i < j => items[i].src < items[j].src
            /\ \A j \in 1..Len(items) :
                  items[j].media = MediaOf(picker[items[j].src].type)
            /\ result.success <=> n - k > 0
            /\ partial_success(result) <=> (0 < k /\ k < n)

\* five picker items, two of them failed the probe: 5 attempted, 2 failed,
\* 3 media items, success and partial success
C20_Witness ==
    /\ parse_call.pc = "returned"
    /\ parse_call.response.status = "picker"
    /\ Len(parse_call.response.picker) = 5
    /\ Cardinality(Survivors(parse_call.response.picker)) = 3
    /\ parse_call.result.total_count = 5
    /\ parse_call.result.error_count = 2
    /\ success_count(parse_call.result) = 3
    /\ parse_call.result.success
    /\ partial_success(parse_call.result)

\* the urls the lru_cache holds an answer for
Stored == {prober.cache[k].url : k \in 1..Len(prober.cache)}

\* C21: only positive results are cached: after check_url_has_content(url)
\* has returned False nothing is stored for url, and a later call for url
\* sends a HEAD request again and returns True when that finds content.
C21_OnlyPositiveCached ==
    /\ [](\A url \in Urls : prober.last[url].result = "False"
                               => url \notin Stored)
    /\ [][\A c \in Calls, url \in Urls :
            /\ (prober.calls[c].pc = "idle" /\ prober'.calls[c].url = url
                  /\ prober.last[url].result = "False")
               => prober'.calls[c].pc = "head"
                    \/ /\ prober'.last[url].result = "True"
                       /\ prober'.last[url].heads = 1
            /\ (prober.calls[c].pc = "head" /\ prober'.calls[c].pc = "idle"
                  /\ prober.calls[c].url = url
                  /\ prober'.last[url].got = "content")
               => prober'.last[url].result = "True"]_vars

\* C22: check_url_has_content returns True or False and never raises,
\* whatever the HEAD requests give: an error or a timeout, another status
\* code than 200, a missing Content-Length or one that is no number.
C22_NeverRaises ==
    /\ [](\A url \in Urls : prober.last[url].result \in {"none", "True", "False"})
    /\ [][\A c \in Calls :
            (prober.calls[c].pc = "head" /\ prober'.calls[c] # prober.calls[c])
               => /\ prober'.calls[c].pc = "idle"
                  /\ prober'.last[prober.calls[c].url].result
                        \in {"True", "False"}]_vars

\* a call has returned False after a HEAD request whose answer had a
\* Content-Length that is no number
C22_Witness ==
    \E url \in Urls : /\ prober.last[url].result = "False"
                       /\ prober.last[url].got = "bad_length"

RECURSIVE Flat(_)
\* the items of the batches, in the order they were handed to the transport
Flat(batches) ==
    IF batches = <<>> THEN <<>> ELSE Head(batches) \o Flat(Tail(batches))

\* C23: send_media_to_dm hands the media items to the transport in the order
\* of the list, each one once; every batch of a list of several items holds
\* at most 10 items; when it returns True every item of the list was sent.
C23_EachOnceInOrder ==
    deliver_call.pc # "none" =>
        LET sent == deliver_call.sent
            flat == Flat(sent)
        IN  /\ flat = [j \in 1..Len(flat) |-> j]
            /\ Len(flat) <= deliver_call.n
            /\ \A b \in 1..Len(sent) :
                  Len(sent[b]) >= 1 /\ Len(sent[b]) <= 10
            /\ (deliver_call.pc = "returned" /\ deliver_call.result.dm_sent)
                  => Len(flat) = deliver_call.n

\* a list of more than 10 items was delivered in two batches
C23_Witness ==
    /\ deliver_call.pc = "returned"
    /\ deliver_call.result.dm_sent
    /\ deliver_call.n > 10
    /\ Len(deliver_call.sent) = 2

\* C24: send_media_to_dm returns (False, True) when a send fails because the
\* user blocked the bot or never started it and (False, None) for every other
\* failure, results that differ from each other and from every (True, ...);
\* process_download_callback then shows the permission-required keyboard in
\* the first case and the error keyboard in the second.
C24_UnreachableRecipientDistinct ==
    [][\A p \in ProcIds :
          /\ \A o \in SendOutcomes :
                media_sent(Full, p, o)
                   => procs'[p].pc =
                         (IF o \in {"blocked", "cant_initiate"}
                          THEN "noperm_edit"
                          ELSE IF o = "error" THEN "dmfail_edit"
                          ELSE "upd_orig")
          /\ no_permission_shown(p, TRUE)
                => surface'[procs[p].id] = "perm"
          /\ delivery_error_shown(p, TRUE)
                => surface'[procs[p].id] = "error"]_vars

\* a delivery failed because the user is out of reach and the handler is
\* about to show the permission-required keyboard
C24_Witness ==
    \E p \in ProcIds :
        /\ procs[p].pc = "noperm_edit"
        /\ AfterDelivery(Failure("blocked")) = "noperm_edit"
        /\ AfterDelivery(Failure("error")) = "dmfail_edit"

\* C25: a dispatch that is answered "This is not your message" changes
\* neither query_info nor timeout_tasks: the timeout task of the query, armed
\* when another user clicks, is still armed when the click has been refused.
C25_UnauthorizedKeepsTrigger ==
    [][\A p \in ProcIds :
          (procs[p].kind = "click" /\ procs[p].pc = "cb_answer"
             /\ procs'[p].pc = "unauth_answer")
          => /\ query_info' = query_info
             /\ timeout_tasks' = timeout_tasks
             /\ \A t \in ProcIds :
                   (Armed(t) /\ procs[t].id = procs[p].id)
                      => procs'[t] = procs[t]]_vars

\* C26: every uuid that has an entry in timeout_tasks is in query_info,
\* whatever operations happened: eviction by add_query, dispatch by a click,
\* the automatic dispatch, the arming that follows the awaited send_photo.
C26_NoOrphanedTimeoutTask ==
    \A id \in DOMAIN timeout_tasks : id \in DOMAIN query_info

C28_SingleAssetIncluded ==
    LET response == parse_call.response
        result == parse_call.result
        included == Len(result.media_items) = 1
    IN  (/\ parse_call.pc = "returned"
         /\ response.status \in {"tunnel", "redirect"}
         /\ response.audio \/ response.url
         /\ ~response.raises)
        => /\ response.status = "tunnel"
                => single_probes(response) = 0 /\ included
           /\ response.status = "redirect"
                => /\ single_probes(response) = 1
                   /\ included <=> response.has_content
                   /\ ~response.has_content
                         => ~result.success /\ result.error_count = 1

\* C29: the probes of a picker response, of the urls and of the thumbs, are
\* all scheduled together and have all returned before the first item is
\* classified; an item is in the result exactly if the probe of its own url
\* found content, and a media item has a thumbnail exactly if its item has a
\* thumb whose probe found content: a failed thumb probe does not drop it.
C29_ProbesJoined ==
    LET c == gather_call
        items == c.result.media_items
    IN  /\ c.pc = "gather"
             => \A k \in DOMAIN c.check_results :
                   c.check_results[k] # "unstarted"
        /\ c.pc = "returned"
             => /\ \A k \in DOMAIN c.check_results :
                      c.check_results[k] \in ProbeResults(c, k)
                /\ \A i \in 1..Len(c.picker) :
                      (\E j \in 1..Len(items) : items[j].src = i)
                         <=> c.check_results[UrlProbe(i)] = "True"
                /\ \A j \in 1..Len(items) :
                      c.thumbnails[j]
                         <=> /\ c.picker[items[j].src].thumb
                             /\ c.check_results[ThumbProbe(items[j].src)]
                                   = "True"

\* an item whose thumb probe failed is in the result without thumbnail, next
\* to an item whose url probe failed
C29_Witness ==
    /\ gather_call.pc = "returned"
    /\ Len(gather_call.picker) = 2
    /\ gather_call.picker[2].thumb
    /\ gather_call.check_results[UrlProbe(1)] = "False"
    /\ gather_call.check_results[UrlProbe(2)] = "True"
    /\ gather_call.check_results[ThumbProbe(2)] = "False"
    /\ Len(gather_call.result.media_items) = 1
    /\ gather_call.thumbnails = <<FALSE>>

\* C30: in every dispatch that passed the authorization check, of an inline
\* or of a direct query, the dummy message is sent and deleted before the
\* processing keyboard is shown and self.fetch is called; when sending or
\* deleting it fails, the dispatch goes on to the permission-required
\* keyboard and ends without calling self.fetch.
C30_ProbeBeforeFetch ==
    [][\A p \in ProcIds :
          /\ (procs'[p].pc = "proc_edit" /\ procs[p].pc # "proc_edit")
                => procs[p].pc = "dm_probe"
          /\ dm_probed(p, FALSE) => procs'[p].pc = "perm_edit"
          /\ (procs[p].pc \in {"perm_edit", "perm_answer"}
                /\ procs'[p] # procs[p])
                => procs'[p].pc \in {"perm_answer", "idle"}]_vars

\* the awaits of a dispatch whose result was no success: the error text, the
\* error keyboard of the exception handler and its final callback.answer
Reporting == {"err_edit", "fallback_edit", "fail_answer"}

\* C31: when parse_media_response returns a result that is no success (an
\* error response, the one fetch returns when every mirror failed included,
\* or a response whose items all failed the probe), the dispatch has removed
\* the query from query_info before it reports, it shows the error text on
\* the originating message, and it ends without calling send_media_to_dm.
C31_FailedResultReported ==
    [][\A p \in ProcIds :
          /\ (procs'[p].pc = "err_edit" /\ procs[p].pc # "err_edit")
                => procs[p].id \notin DOMAIN query_info'
          /\ error_text_shown(p, TRUE)
                => surface'[procs[p].id] = "errtext"
          /\ (procs[p].pc \in Reporting /\ procs'[p] # procs[p])
                => procs'[p].pc \in Reporting \cup {"idle"}]_vars

\* the error text is shown for a query that is no longer stored
C31_Witness ==
    \E i \in Ids : surface[i] = "errtext" /\ i \notin DOMAIN query_info

\* C32: when parse_media_response flagged its result a success and
\* send_media_to_dm returned True for it, at least one media item was sent:
\* no result with success set is empty, and no delivery of an empty list
\* returns True.
C32_SuccessMeansSent ==
    /\ (parse_call.pc = "returned" /\ parse_call.result.success)
          => success_count(parse_call.result) > 0
    /\ (deliver_call.pc = "returned" /\ deliver_call.result.dm_sent)
          => Len(Flat(deliver_call.sent)) > 0

\* C33: when send_media_to_dm returns False, no media item of the list was
\* sent: a send that raises for a later batch does not leave the batches
\* before it delivered.
C33_FailureMeansNothingSent ==
    (deliver_call.pc = "returned" /\ ~deliver_call.result.dm_sent)
        => deliver_call.sent = <<>>

\* the awaits of process_download_callback after the processing keyboard was
\* shown (bot.py:433-562)
AfterProcessing == {"probe", "err_edit", "send_media", "noperm_edit",
                    "dmfail_edit", "upd_orig", "fallback_edit", "fail_answer"}

\* C34: an originating message shows the processing keyboard only while a
\* dispatch of its query is past the update that showed it: a dispatch that
\* has ended, by returning, by an exception or by the cancellation of its
\* task, has replaced or removed the processing keyboard before.
C34_ProcessingReplaced ==
    \A i \in Ids :
        surface[i] = "processing"
           => \E p \in ProcIds : procs[p].id = i /\ procs[p].pc \in AfterProcessing

\* C35: a url whose origin serves its payload without a Content-Length (a
\* streamed body: the HEAD request is answered 200 with no length header)
\* is found to have content: check_url_has_content goes on to read a part of
\* the body and returns True.
C35_NoLengthStillContent ==
    \A url \in Urls :
        prober.last[url].got = "no_length" => prober.last[url].result = "True"

\* C36: once check_url_has_content(url) has returned True, the next call for
\* url returns True from the cache, without a HEAD request, whatever other
\* urls were probed in between.
C36_PositiveStaysCached ==
    [][\A c \in Calls, url \in Urls, o \in HeadOutcomes :
          (prober.last[url].result = "True" /\ check_url_has_content(c, url, o))
             => /\ prober'.calls[c].pc = "idle"
                /\ prober'.last[url].result = "True"
                /\ prober'.last[url].heads = 0]_vars

\* the kind that the response's own metadata and file name give: the "type"
\* of the response if it carries one, else the table that the end of the
\* file name is in, "file" if it is in none
KindOf(data) ==
    IF data.type # "unset" THEN data.type
    ELSE type_of_suffix(filename_of(data))

\* C37: the media item built for a single asset has the kind the response
\* carries; without one, the kind of the extension the file name ends in
\* (video, photo, gif for ".gif", audio), and the generic document when the
\* name does not end in a recognised extension.
C37_KindOfAsset ==
    parse_call.pc = "returned" /\ "data" \in DOMAIN parse_call
        => parse_call.result.media_items =
              <<[media |-> MediaOf(KindOf(parse_call.data)), src |-> 1]>>

\* C38: after send_media_to_dm returned True for a list that is not empty
\* and the update of the originating message succeeded, the originating
\* message, of an inline or of a direct query, holds the first item of the
\* list: by the file_id of the private message of that first item if one was
\* read, by the item's own remote reference otherwise.
C38_FirstAssetReflected ==
    LET c == deliver_call IN
    (c.pc = "updated" /\ c.n > 0 /\ c.original # Prompt
        /\ c.original.media # "text")
       => /\ c.original.item = 1
          /\ c.original.media =
                (IF c.first_file_id # 0 THEN "file_id" ELSE "remote")
          /\ c.first_file_id \in {0, 1}

====
